---------------------------- MODULE Spec2Model ----------------------------
(***************************************************************************)
(* loadSWW (src/corelib/crayfish_sww.cpp): decoding of an ANUGA .sww       *)
(* NetCDF container into a Mesh with Bed Elevation, Depth and (optional)   *)
(* Momentum datasets.                                                      *)
(*                                                                         *)
(* Encodings.  Lengths (z, stage, depth) are integers in units of 1e-5 m,  *)
(* so DEPTH_THRESHOLD 0.0001 m is 10.  Raw times are integer seconds and   *)
(* output times are in units of 0.01 h.  Arrays are functions on 0..n-1    *)
(* as in the source; the output list of a DataSet is a sequence, and       *)
(* output(ds, t) is its element t+1.  The NetCDF library is the set of     *)
(* ids it currently has open plus the log of calls made on it.             *)
(***************************************************************************)
EXTENDS Integers, Sequences, FiniteSets, TLC

\* ------------------------------------------------------------ bounds ----
MaxPoints == 2
MaxVolumes == 1
MaxTimesteps == 2

\* ------------------------------------------------- program constants ----
DEPTH_THRESHOLD == 10

\* ------------------------------------------------------- input sets -----
\* number_of_vertices values a file may carry
VertexCounts == {2, 3, 4}
\* water stages; with a bed at 0 or 1 (ZRows) stage - z takes values
\* below, equal to and above the threshold
StageVals == {10, 11}
\* what an out-of-bounds read of the per-node buffer may deliver
GarbageVals == {0, 25}
\* the id the host application already has open, the id nc_open hands out,
\* and the values the uninitialised local ncid may hold
ForeignIds == {65536}
FreshIds == {65537}
GarbageIds == ForeignIds \cup FreshIds
\* values of the xllcorner / yllcorner attributes when present
CornerVals == {500}
\* raw x / y coordinates
CoordVals == {40}
\* raw time of the first timestep, in seconds; the axis advances by 1800 s
TimeStarts == {900}

DimNames == <<"number_of_volumes", "number_of_vertices",
              "number_of_points", "number_of_timesteps">>
VarNames == <<"x", "y", "z", "volumes", "time", "stage">>
MeshVarNames == <<"x", "y", "z", "volumes">>

VARIABLES
  pc,        \* position in loadSWW
  status,    \* "null" (no LoadStatus passed) or the value of mLastError
  result,    \* "pending", "null" (return 0) or "mesh" (return mesh)
  ncOpen,    \* ids the NetCDF library has open
  ncid,      \* the local variable ncid
  ncCalls,   \* log of NetCDF calls issued by loadSWW
  dims,      \* nVolumes, nVertices, nPoints, nTimesteps
  file,      \* the contents of the container, as far as they were looked at
  mesh,      \* NoMesh or the Mesh with its datasets
  ds,        \* the Depth DataSet under construction
  mds,       \* the Momentum DataSet under construction
  times,     \* QVector<float> times
  bufXY,     \* valuesX, valuesY
  t,         \* loop counter of the timestep loops
  created,   \* heap objects constructed so far: meshes, datasets, outputs
  faulted    \* an unchecked read has failed

vars == <<pc, status, result, ncOpen, ncid, ncCalls, dims, file, mesh, ds,
          mds, times, bufXY, t, created, faulted>>

\* ------------------------------------------------------------ helpers ---
Min(a, b) == IF a < b THEN a ELSE b

\* a QVector<float> of n zero-initialised elements
ZeroBuf(n) == [i \in 0..(n - 1) |-> 0]

\* one entry of the call log
Call(op, id, name, ok) == [op |-> op, ncid |-> id, name |-> name, ok |-> ok]

\* a chain  f(a) != NC_NOERR || f(b) != NC_NOERR || ...  in which the first k
\* calls succeed: the calls issued are the k successes and, when k is short
\* of the chain, the one failure that ends the evaluation
Chain(op, id, names, k) ==
  [i \in 1..Min(k + 1, Len(names)) |-> Call(op, id, names[i], i <= k)]

\* if (status) status->clear();
Clear(st) == IF st = "null" THEN "null" ELSE "Err_None"

\* if (status) status->mLastError = LoadStatus::Err_UnknownFormat;
SetUnknownFormat(st) == IF st = "null" THEN "null" ELSE "Err_UnknownFormat"

\* variant: the close is left out
NcClose_Omitted(calls, open, id) == calls

\* nc_close(id)
NcClose(calls, open, id) == Append(calls, Call("close", id, "", id \in open))

\* the error exit shared by all validation and read failures:
\* nc_close(ncid); set the status; return 0
Fail(calls) ==
  /\ ncCalls' = NcClose(calls, ncOpen, ncid)
  /\ ncOpen' = ncOpen \ {ncid}
  /\ status' = SetUnknownFormat(status)
  /\ result' = "null"
  /\ pc' = "returned"

\* Output::init(nodeCount, elemCount, isVector): the three vectors resized,
\* zero-filled
OutputInit(nPoints, nVolumes, isVector) ==
  [time |-> 0,
   values |-> ZeroBuf(nPoints),
   valuesV |-> IF isVector THEN [i \in 0..(nPoints - 1) |-> <<0, 0>>] ELSE <<>>,
   active |-> [e \in 0..(nVolumes - 1) |-> FALSE]]

\* DataSet(fileName) with setType, setName, setIsTimeVarying
NewDataSet(type, name, timeVarying) ==
  [type |-> type, name |-> name, timeVarying |-> timeVarying,
   outputs |-> <<>>, zRangeUpdates |-> 0]

\* DataSet::addOutput, DataSet::output, DataSet::updateZRange
\* no DataSet constructed yet
NoDataSet == NewDataSet("none", "", FALSE)
NoMesh == [nodes |-> <<>>, elements |-> <<>>, datasets |-> <<>>]

AddOutput(d, o) == [d EXCEPT !.outputs = Append(@, o)]
output(d, i) == d.outputs[i + 1]
UpdateZRange(d) == [d EXCEPT !.zRangeUpdates = @ + 1]

\* Mesh::addDataSet
AddDataSet(m, d) == [m EXCEPT !.datasets = Append(@, d)]

\* ---------------------------------------------------------------- Init --
Init ==
  /\ pc = "start"
  /\ status \in {"null", "Err_FileNotFound"}
  /\ result = "pending"
  /\ ncOpen = ForeignIds
  /\ ncid = 0
  /\ ncCalls = <<>>
  /\ dims = [nVolumes |-> 0, nVertices |-> 0, nPoints |-> 0, nTimesteps |-> 0]
  /\ file = [x |-> <<>>, y |-> <<>>, z |-> <<>>, volumes |-> <<>>,
             corner |-> <<>>, time |-> <<>>, stage |-> <<>>,
             xmomentum |-> <<>>, ymomentum |-> <<>>]
  /\ mesh = NoMesh
  /\ ds = NoDataSet
  /\ mds = NoDataSet
  /\ times = <<>>
  /\ bufXY = <<>>
  /\ t = 0
  /\ created = [meshes |-> 0, datasets |-> 0, outputs |-> 0]
  /\ faulted = FALSE

\* ------------------------------------------------- lines 42-54: open ----
\* On failure nc_open leaves ncid unset, and nc_close is called on whatever
\* the uninitialised local holds.
Open ==
  /\ pc = "start"
  /\ \/ \E h \in FreshIds :
          /\ ncid' = h
          /\ ncOpen' = ncOpen \cup {h}
          /\ ncCalls' = Append(ncCalls, Call("open", h, "", TRUE))
          /\ status' = Clear(status)
          /\ pc' = "dimids"
          /\ UNCHANGED result
     \/ \E g \in GarbageIds :
          /\ ncid' = g
          /\ ncCalls' = NcClose(Append(ncCalls, Call("open", 0, "", FALSE)),
                                ncOpen, g)
          /\ ncOpen' = ncOpen \ {g}
          /\ status' = SetUnknownFormat(Clear(status))
          /\ result' = "null"
          /\ pc' = "returned"
  /\ UNCHANGED <<dims, file, mesh, ds, mds, times, bufXY, t, created, faulted>>

\* ------------------------------------- lines 59-67: dimension lookups ---
InqDimIds ==
  /\ pc = "dimids"
  /\ \E k \in 0..Len(DimNames) :
       LET calls == ncCalls \o Chain("inq_dimid", ncid, DimNames, k) IN
       IF k = Len(DimNames)
         THEN /\ ncCalls' = calls
              /\ pc' = "dimlens"
              /\ UNCHANGED <<status, result, ncOpen>>
         ELSE Fail(calls)
  /\ UNCHANGED <<ncid, dims, file, mesh, ds, mds, times, bufXY, t, created, faulted>>

\* ---------------------------------------- lines 68-76: dimension lengths
InqDimLens ==
  /\ pc = "dimlens"
  /\ \E k \in 0..Len(DimNames) :
       LET calls == ncCalls \o Chain("inq_dimlen", ncid, DimNames, k) IN
       IF k = Len(DimNames)
         THEN /\ ncCalls' = calls
              /\ \E nv \in 0..MaxVolumes, nx \in VertexCounts,
                    np \in 0..MaxPoints, nt \in 0..MaxTimesteps :
                   dims' = [nVolumes |-> nv, nVertices |-> nx,
                            nPoints |-> np, nTimesteps |-> nt]
              /\ pc' = "vertices"
              /\ UNCHANGED <<status, result, ncOpen>>
         ELSE Fail(calls) /\ UNCHANGED dims
  /\ UNCHANGED <<ncid, file, mesh, ds, mds, times, bufXY, t, created, faulted>>

\* ------------------------------------- lines 78-84: triangular elements -
\* variant: only fewer than three vertices are rejected
IsTriangular_AtLeast(nVertices) == nVertices >= 3

IsTriangular(nVertices) == nVertices = 3

CheckVertices ==
  /\ pc = "vertices"
  /\ IF IsTriangular(dims.nVertices)
       THEN /\ pc' = "varids"
            /\ UNCHANGED <<status, result, ncOpen, ncCalls>>
       ELSE Fail(ncCalls)
  /\ UNCHANGED <<ncid, dims, file, mesh, ds, mds, times, bufXY, t, created, faulted>>

\* --------------------------------------- lines 86-97: variable lookups --
InqVarIds ==
  /\ pc = "varids"
  /\ \E k \in 0..Len(VarNames) :
       LET calls == ncCalls \o Chain("inq_varid", ncid, VarNames, k) IN
       IF k = Len(VarNames)
         THEN /\ ncCalls' = calls
              /\ pc' = "readmesh"
              /\ UNCHANGED <<status, result, ncOpen>>
         ELSE Fail(calls)
  /\ UNCHANGED <<ncid, dims, file, mesh, ds, mds, times, bufXY, t, created, faulted>>

\* ------------------------------------------- lines 100-112: mesh arrays --
\* the triplets a file may hold for one element: an edge between two
\* neighbouring nodes (its first node twice), and one triplet that holds -1
\* and nPoints next to node 0
StrayTriplet(nPoints) ==
  [k \in 0..2 |-> IF k = 0 THEN -1 ELSE IF k = 1 THEN 0 ELSE nPoints]

Triplets(nPoints) ==
  {[k \in 0..2 |-> (a + k \div 2) % nPoints] : a \in 0..(nPoints - 1)}
  \cup {StrayTriplet(nPoints)}

CoordRows(nPoints) == [0..(nPoints - 1) -> CoordVals]

\* a bed that is level, or raised at one node
ZRows(nPoints) ==
  {[i \in 0..(nPoints - 1) |-> IF i = b THEN 1 ELSE 0] : b \in 0..nPoints}

\* the volumes array: one triplet per element, at most one of them with
\* indices outside the nodes
VolumeArrays(nVolumes, nPoints) ==
  {[i \in 0..(3 * nVolumes - 1) |-> tr[i \div 3][i % 3]] :
     tr \in {f \in [0..(nVolumes - 1) -> Triplets(nPoints)] :
              \A d, e \in DOMAIN f :
                 (f[d] = StrayTriplet(nPoints) /\ f[e] = StrayTriplet(nPoints))
                   => d = e}}

\* px, py, pz and pvolumes hold what the file holds once all four reads
\* succeeded; on a failure the buffers are dropped.
ReadMesh ==
  /\ pc = "readmesh"
  /\ \E k \in 0..Len(MeshVarNames) :
       LET calls == ncCalls \o Chain("get_var", ncid, MeshVarNames, k) IN
       IF k = Len(MeshVarNames)
         THEN /\ ncCalls' = calls
              /\ \E fx \in CoordRows(dims.nPoints), fy \in CoordRows(dims.nPoints),
                    fz \in ZRows(dims.nPoints),
                    fv \in VolumeArrays(dims.nVolumes, dims.nPoints) :
                   file' = [file EXCEPT !.x = fx, !.y = fy, !.z = fz,
                                        !.volumes = fv]
              /\ pc' = "build"
              /\ UNCHANGED <<status, result, ncOpen>>
         ELSE Fail(calls) /\ UNCHANGED file
  /\ UNCHANGED <<ncid, dims, mesh, ds, mds, times, bufXY, t, created, faulted>>

\* ------------------------------------ lines 114-159: mesh and bed dataset
\* variant: line 133 is left out
BedOutput_Unfilled(nPoints, nVolumes, pz) ==
  [OutputInit(nPoints, nVolumes, FALSE) EXCEPT
     !.time = 0,
     !.active = [e \in 0..(nVolumes - 1) |-> TRUE]]

\* lines 120-123 and 133: the bed elevation output
BedOutput(nPoints, nVolumes, pz) ==
  [OutputInit(nPoints, nVolumes, FALSE) EXCEPT
     !.time = 0,
     !.active = [e \in 0..(nVolumes - 1) |-> TRUE],
     !.values = [i \in 0..(nPoints - 1) |-> pz[i]]]

\* lines 126-132
Nodes(nPoints, px, py, xLLcorner, yLLcorner) ==
  [i \in 0..(nPoints - 1) |->
     [id |-> i, x |-> px[i] + xLLcorner, y |-> py[i] + yLLcorner]]

\* lines 136-146: the triplets are copied as they are
Elements(nVolumes, pvolumes) ==
  [i \in 0..(nVolumes - 1) |->
     [id |-> i, eType |-> "E3T",
      p |-> [k \in 0..2 |-> pvolumes[3 * i + k]]]]

\* nc_get_att_float leaves the float at its initial 0 when the attribute
\* is absent
Corner(att) == IF att.present THEN att.value ELSE 0

\* an attribute as the file holds it; a file carries both corner
\* attributes or neither
CornerAtts ==
  {[present |-> FALSE, value |-> 0]} \cup
  {[present |-> TRUE, value |-> v] : v \in CornerVals}

BuildMesh ==
  /\ pc = "build"
  /\ \E ax \in CornerAtts : \E ay \in {a \in CornerAtts : a.present = ax.present} :
       LET o == BedOutput(dims.nPoints, dims.nVolumes, file.z)
           bedDs == UpdateZRange(AddOutput(
                      NewDataSet("Bed", "Bed Elevation", FALSE), o))
           m == [nodes |-> Nodes(dims.nPoints, file.x, file.y,
                                 Corner(ax), Corner(ay)),
                 elements |-> Elements(dims.nVolumes, file.volumes),
                 datasets |-> <<>>]
       IN /\ file' = [file EXCEPT !.corner = <<ax, ay>>]
          /\ ncCalls' = ncCalls \o
               <<Call("get_att", ncid, "xllcorner", ax.present),
                 Call("get_att", ncid, "yllcorner", ay.present)>>
          /\ mesh' = AddDataSet(m, bedDs)
  /\ created' = [created EXCEPT !.meshes = @ + 1, !.datasets = @ + 1,
                                !.outputs = @ + 1]
  /\ pc' = "times"
  /\ UNCHANGED <<status, result, ncOpen, ncid, dims, ds, mds, times, bufXY, t,
                 faulted>>

\* ------------------------------------------ lines 163-171: time axis ----
TimeRows(nTimesteps) ==
  {[i \in 0..(nTimesteps - 1) |-> b + 1800 * i] : b \in TimeStarts}

\* whether a read whose result the code ignores succeeds; at most one of
\* them fails in a load
Outcomes == IF faulted THEN {TRUE} ELSE BOOLEAN

\* An unchecked read that fails leaves its destination as it was.
ReadInto(dest, src, ok) == IF ok THEN src ELSE dest

ReadTimes ==
  /\ pc = "times"
  /\ \E ok \in Outcomes, ft \in TimeRows(dims.nTimesteps) :
       /\ file' = [file EXCEPT !.time = ft]
       /\ faulted' = (faulted \/ ~ok)
       /\ times' = ReadInto(ZeroBuf(dims.nTimesteps), ft, ok)
       /\ ncCalls' = Append(ncCalls, Call("get_var", ncid, "time", ok))
  /\ ds' = NewDataSet("Scalar", "Depth", TRUE)
  /\ created' = [created EXCEPT !.datasets = @ + 1]
  /\ t' = 0
  /\ pc' = "depth"
  /\ UNCHANGED <<status, result, ncOpen, ncid, dims, mesh, mds, bufXY>>

\* ------------------------------------------ lines 172-202: depth loop ---
\* times[t] / 3600. : seconds to hours, in hundredths of an hour; exact on
\* the raw times of TimeRows, which are multiples of 36 s
SecondsToHours(s) == (s * 100) \div 3600

\* line 171: elev points at the values of the bed output
Elev(m) == output(m.datasets[1], 0).values

\* lines 188-189
DepthValues(values, elev) ==
  [j \in DOMAIN values |-> values[j] - elev[j]]

IsWet(v) == v > DEPTH_THRESHOLD

\* elem.p[k] is an unsigned index into a buffer of n floats; a negative int
\* of the file is an unsigned value of at least 2^31
InBounds(idx, n) == idx >= 0 /\ idx < n

\* values[elem.p[k]]: the value, or anything when the index is outside
ReadValue(values, idx) ==
  IF InBounds(idx, Cardinality(DOMAIN values)) THEN {values[idx]}
  ELSE GarbageVals

\* lines 195-198 for one element
ElementActive(values, elem) ==
  {IsWet(v0) \/ IsWet(v1) \/ IsWet(v2) :
     v0 \in ReadValue(values, elem.p[0]),
     v1 \in ReadValue(values, elem.p[1]),
     v2 \in ReadValue(values, elem.p[2])}

\* lines 192-199 for all elements
ActiveArrays(values, elements) ==
  {a \in [DOMAIN elements -> BOOLEAN] :
     \A e \in DOMAIN elements : a[e] \in ElementActive(values, elements[e])}

HasStrayIndex(m) ==
  \E e \in DOMAIN m.elements : \E k \in 0..2 :
    ~InBounds(m.elements[e].p[k], Cardinality(DOMAIN m.nodes))

\* the water surface of one timestep: level
StageRows(nPoints) == {[i \in 0..(nPoints - 1) |-> s] : s \in StageVals}

DepthStep ==
  /\ pc = "depth"
  /\ t < dims.nTimesteps
  /\ \E ok \in Outcomes, row \in StageRows(dims.nPoints) :
       LET to == [OutputInit(dims.nPoints, dims.nVolumes, FALSE) EXCEPT
                    !.time = SecondsToHours(times[t])]
           values == DepthValues(ReadInto(to.values, row, ok), Elev(mesh))
       IN /\ file' = [file EXCEPT !.stage = Append(@, row)]
          /\ faulted' = (faulted \/ ~ok)
          /\ ncCalls' = Append(ncCalls, Call("get_vars", ncid, "stage", ok))
          /\ \/ \E a \in ActiveArrays(values, mesh.elements) :
                  /\ ds' = AddOutput(ds, [to EXCEPT !.values = values,
                                                    !.active = a])
                  /\ t' = t + 1
                  /\ pc' = "depth"
             \/ /\ HasStrayIndex(mesh)
                /\ pc' = "crashed"
                /\ UNCHANGED <<ds, t>>
  /\ created' = [created EXCEPT !.outputs = @ + 1]
  /\ UNCHANGED <<status, result, ncOpen, ncid, dims, mesh, mds, times, bufXY>>

\* lines 204-205
DepthDone ==
  /\ pc = "depth"
  /\ t >= dims.nTimesteps
  /\ ds' = UpdateZRange(ds)
  /\ mesh' = AddDataSet(mesh, ds')
  /\ pc' = "momentum"
  /\ UNCHANGED <<status, result, ncOpen, ncid, ncCalls, dims, file, mds,
                 times, bufXY, t, created, faulted>>

\* ------------------------------------- lines 207-216: momentum lookups --
MomentumNames == <<"xmomentum", "ymomentum">>

\* variant: || in place of &&
HasMomentum_Either(k) == k >= 1

\* lines 208-209: both lookups return NC_NOERR, k being the number of
\* lookups that succeed before the first one that does not
HasMomentum(k) == k = Len(MomentumNames)

InqMomentum ==
  /\ pc = "momentum"
  /\ \E k \in 0..Len(MomentumNames) :
       /\ ncCalls' = ncCalls \o Chain("inq_varid", ncid, MomentumNames, k)
       /\ IF HasMomentum(k)
            THEN /\ mds' = NewDataSet("Vector", "Momentum", TRUE)
                 /\ created' = [created EXCEPT !.datasets = @ + 1]
                 /\ bufXY' = [x |-> ZeroBuf(dims.nPoints),
                              y |-> ZeroBuf(dims.nPoints)]
                 /\ t' = 0
                 /\ pc' = "mloop"
            ELSE /\ pc' = "close"
                 /\ UNCHANGED <<mds, created, bufXY, t>>
  /\ UNCHANGED <<status, result, ncOpen, ncid, dims, file, mesh, ds, times,
                 faulted>>

\* ---------------------------------------- lines 217-244: momentum loop --
\* float2D::length()
ISqrt(n) == CHOOSE r \in 0..n : r * r <= n /\ (r + 1) * (r + 1) > n
Length(v) == ISqrt(v[1] * v[1] + v[2] * v[2])

\* variant: the active array of the first depth output is taken
MomentumActive_First(depthDs, ts) == output(depthDs, 0).active

\* line 222
MomentumActive(depthDs, ts) == output(depthDs, ts).active

\* the momentum the file holds at timestep ts: (3, 4), (6, 8), ... at node
\* 0 and one unit more in x at each further node
XMomentumRows(nPoints, ts) == {[i \in 0..(nPoints - 1) |-> 3 * (ts + 1) + i]}
YMomentumRows(nPoints, ts) == {[i \in 0..(nPoints - 1) |-> 4 * (ts + 1)]}

MomentumStep ==
  /\ pc = "mloop"
  /\ t < dims.nTimesteps
  /\ \E okx \in Outcomes, oky \in Outcomes,
        rowx \in XMomentumRows(dims.nPoints, t),
        rowy \in YMomentumRows(dims.nPoints, t) :
       LET valuesX == ReadInto(bufXY.x, rowx, okx)
           valuesY == ReadInto(bufXY.y, rowy, oky)
           vecs == [i \in 0..(dims.nPoints - 1) |-> <<valuesX[i], valuesY[i]>>]
           mto == [OutputInit(dims.nPoints, dims.nVolumes, TRUE) EXCEPT
                     !.time = SecondsToHours(times[t]),
                     !.active = MomentumActive(ds, t),
                     !.valuesV = vecs,
                     !.values = [i \in 0..(dims.nPoints - 1) |-> Length(vecs[i])]]
       IN /\ okx \/ oky          \* at most one failing read in a load
          /\ faulted' = (faulted \/ ~okx \/ ~oky)
          /\ file' = [file EXCEPT !.xmomentum = Append(@, rowx),
                                  !.ymomentum = Append(@, rowy)]
          /\ ncCalls' = ncCalls \o
               <<Call("get_vars", ncid, "xmomentum", okx),
                 Call("get_vars", ncid, "ymomentum", oky)>>
          /\ bufXY' = [x |-> valuesX, y |-> valuesY]
          /\ mds' = AddOutput(mds, mto)
  /\ created' = [created EXCEPT !.outputs = @ + 1]
  /\ t' = t + 1
  /\ UNCHANGED <<pc, status, result, ncOpen, ncid, dims, mesh, ds, times>>

\* lines 247-248
MomentumDone ==
  /\ pc = "mloop"
  /\ t >= dims.nTimesteps
  /\ mds' = UpdateZRange(mds)
  /\ mesh' = AddDataSet(mesh, mds')
  /\ pc' = "close"
  /\ UNCHANGED <<status, result, ncOpen, ncid, ncCalls, dims, file, ds,
                 times, bufXY, t, created, faulted>>

\* ------------------------------------------------------ lines 251-253 ---
Close ==
  /\ pc = "close"
  /\ ncCalls' = NcClose(ncCalls, ncOpen, ncid)
  /\ ncOpen' = ncOpen \ {ncid}
  /\ result' = "mesh"
  /\ pc' = "returned"
  /\ UNCHANGED <<status, ncid, dims, file, mesh, ds, mds, times, bufXY, t,
                 created, faulted>>

Next ==
  \/ Open
  \/ InqDimIds
  \/ InqDimLens
  \/ CheckVertices
  \/ InqVarIds
  \/ ReadMesh
  \/ BuildMesh
  \/ ReadTimes
  \/ DepthStep
  \/ DepthDone
  \/ InqMomentum
  \/ MomentumStep
  \/ MomentumDone
  \/ Close

Spec == Init /\ [][Next]_vars

\* ===================================================== properties ========
Returned == pc = "returned"
Succeeded == pc = "returned" /\ result = "mesh"
ReturnedNull == pc = "returned" /\ result = "null"

\* the status a caller that passed a LoadStatus finds after the return
StatusIs(err) == status # "null" => status = err

CallIdx == 1..Len(ncCalls)
BulkReadOps == {"get_var", "get_vars"}
FailedCall(ops, names) ==
  \E i \in CallIdx : /\ ncCalls[i].op \in ops
                     /\ ncCalls[i].name \in names
                     /\ ~ncCalls[i].ok
SucceededCall(op, name) ==
  \E i \in CallIdx : /\ ncCalls[i].op = op
                     /\ ncCalls[i].name = name
                     /\ ncCalls[i].ok
Range(seq) == {seq[i] : i \in 1..Len(seq)}
AllVarNames == Range(VarNames) \cup Range(MomentumNames)
NoBulkRead == \A i \in CallIdx : ncCalls[i].op \notin BulkReadOps
NothingCreated == created = [meshes |-> 0, datasets |-> 0, outputs |-> 0]

\* the depth the file holds at node n of timestep ts
FileDepth(ts, n) == file.stage[ts + 1][n] - file.z[n]

\* C1: a bulk read that fails (x, y, z, volumes, time, or a strided read of
\* stage, xmomentum, ymomentum at any timestep) makes the load return a
\* null mesh with the status UnknownFormat.
C1_FailedReadFailsLoad ==
  (Returned /\ FailedCall(BulkReadOps, AllVarNames))
    => (result = "null" /\ StatusIs("Err_UnknownFormat"))

\* C2: a failed dimension lookup or length lookup, a vertex count other
\* than 3, or a failed lookup of x, y, z, volumes, time or stage ends the
\* load with a null mesh and the status UnknownFormat, before any mesh,
\* dataset or output is created and before any bulk read is issued.
SchemaRejected ==
  \/ FailedCall({"inq_dimid", "inq_dimlen"}, Range(DimNames))
  \/ FailedCall({"inq_varid"}, Range(VarNames))
  \/ /\ pc \notin {"start", "dimids", "dimlens", "vertices"}
     /\ SucceededCall("inq_dimlen", "number_of_timesteps")
     /\ dims.nVertices # 3

C2_SchemaFailure ==
  SchemaRejected =>
    /\ ReturnedNull
    /\ StatusIs("Err_UnknownFormat")
    /\ NothingCreated
    /\ NoBulkRead
    /\ mesh = NoMesh

C2_Witness ==
  /\ ReturnedNull
  /\ status = "Err_UnknownFormat"
  /\ dims.nVertices = 4
  /\ SucceededCall("inq_dimlen", "number_of_timesteps")

\* C3: on every return the log holds one open, as its first call, and one
\* close, as its last call, so that no lookup, attribute read or array read
\* follows the close; a handle that was opened is the one closed and is no
\* longer open.
C3_OpenOnceCloseOnce ==
  /\ \A i \in CallIdx : (ncCalls[i].op = "open") <=> (i = 1)
  /\ \A i \in CallIdx : (ncCalls[i].op = "close") => (i = Len(ncCalls))
  /\ Returned =>
       /\ Len(ncCalls) >= 2
       /\ ncCalls[Len(ncCalls)].op = "close"
       /\ ncCalls[1].ok =>
            /\ ncCalls[Len(ncCalls)].ncid = ncCalls[1].ncid
            /\ ncCalls[1].ncid \notin ncOpen

C3_Witness ==
  /\ Succeeded
  /\ Len(mesh.datasets) = 3
  /\ dims.nTimesteps = 2
  /\ Len(ncCalls) > 20

\* C4: every element of a returned mesh has its three node indices in
\* [0, nodeCount), whatever the volumes array holds.
C4_IndicesInRange ==
  Succeeded =>
    \A e \in DOMAIN mesh.elements : \A k \in 0..2 :
       InBounds(mesh.elements[e].p[k], Cardinality(DOMAIN mesh.nodes))

\* C5: after a successful load the Depth output of timestep ts is active at
\* element e exactly when one of the element's nodes has stage - z above
\* the threshold, and its scalar at node n is stage - z.
C5_DepthAndActive ==
  Succeeded =>
    \A ts \in 0..(dims.nTimesteps - 1) :
      LET o == output(mesh.datasets[2], ts) IN
      /\ \A n \in 0..(dims.nPoints - 1) : o.values[n] = FileDepth(ts, n)
      /\ \A e \in 0..(dims.nVolumes - 1) :
           o.active[e] <=>
             \E k \in 0..2 :
                /\ InBounds(mesh.elements[e].p[k], dims.nPoints)
                /\ FileDepth(ts, mesh.elements[e].p[k]) > DEPTH_THRESHOLD

\* C6: when both momentum variables exist, the Momentum output at every
\* position carries the active array and the time of the Depth output at
\* the same position, for every number of timesteps.
C6_MomentumFollowsDepth ==
  /\ mds.type # "none" =>
       \A i \in 1..Len(mds.outputs) :
          /\ mds.outputs[i].active = ds.outputs[i].active
          /\ mds.outputs[i].time = ds.outputs[i].time
  /\ (Succeeded /\ SucceededCall("inq_varid", "ymomentum")) =>
       /\ Len(mesh.datasets) = 3
       /\ Len(mesh.datasets[3].outputs) = dims.nTimesteps
       /\ Len(mesh.datasets[2].outputs) = dims.nTimesteps
       /\ \A i \in 1..dims.nTimesteps :
            /\ mesh.datasets[3].outputs[i].active
                 = mesh.datasets[2].outputs[i].active
            /\ mesh.datasets[3].outputs[i].time
                 = mesh.datasets[2].outputs[i].time

C6_Witness ==
  /\ Succeeded
  /\ Len(mesh.datasets) = 3
  /\ dims.nTimesteps = 2
  /\ dims.nVolumes >= 1
  /\ mesh.datasets[3].outputs[1].active[0]
  /\ ~mesh.datasets[3].outputs[2].active[0]

\* C7: a returned mesh lists Bed Elevation, Depth, Momentum when both
\* momentum variables exist and Bed Elevation, Depth when one or both are
\* missing; a missing momentum variable sets no error and the mesh is
\* returned.
DataSetNames == [i \in 1..Len(mesh.datasets) |-> mesh.datasets[i].name]
DataSetTypes == [i \in 1..Len(mesh.datasets) |-> mesh.datasets[i].type]

C7_DataSetList ==
  /\ Succeeded =>
       IF SucceededCall("inq_varid", "ymomentum")
         THEN /\ DataSetNames = <<"Bed Elevation", "Depth", "Momentum">>
              /\ DataSetTypes = <<"Bed", "Scalar", "Vector">>
         ELSE /\ DataSetNames = <<"Bed Elevation", "Depth">>
              /\ DataSetTypes = <<"Bed", "Scalar">>
  /\ (Returned /\ FailedCall({"inq_varid"}, Range(MomentumNames))) =>
       /\ result = "mesh"
       /\ StatusIs("Err_None")

C7_Witness ==
  /\ Succeeded
  /\ status = "Err_None"
  /\ SucceededCall("inq_varid", "xmomentum")
  /\ FailedCall({"inq_varid"}, {"ymomentum"})
  /\ Len(mesh.datasets) = 2

\* C8: after a successful load the Depth dataset, and the Momentum dataset
\* when present, hold number_of_timesteps outputs, the one at position ts
\* having the time rawTime[ts] / 3600 and the values of row ts of the file.
C8_OutputsFollowFile ==
  Succeeded =>
    /\ Len(mesh.datasets[2].outputs) = dims.nTimesteps
    /\ \A ts \in 0..(dims.nTimesteps - 1) :
         LET o == output(mesh.datasets[2], ts) IN
         /\ o.time = SecondsToHours(file.time[ts])
         /\ \A n \in 0..(dims.nPoints - 1) : o.values[n] = FileDepth(ts, n)
    /\ Len(mesh.datasets) = 3 =>
         /\ Len(mesh.datasets[3].outputs) = dims.nTimesteps
         /\ \A ts \in 0..(dims.nTimesteps - 1) :
              LET o == output(mesh.datasets[3], ts) IN
              /\ o.time = SecondsToHours(file.time[ts])
              /\ \A n \in 0..(dims.nPoints - 1) :
                   o.valuesV[n] = <<file.xmomentum[ts + 1][n],
                                    file.ymomentum[ts + 1][n]>>

\* C9: from the moment the mesh exists to the return, its first dataset is
\* the Bed Elevation dataset, not time-varying, with one output whose
\* scalars are the raw z array and whose active flags are all true; the
\* depth and momentum steps do not change it.
C9_BedDataSet ==
  mesh # NoMesh =>
    LET bed == mesh.datasets[1] IN
    /\ bed.type = "Bed"
    /\ bed.name = "Bed Elevation"
    /\ ~bed.timeVarying
    /\ Len(bed.outputs) = 1
    /\ bed.outputs[1].values = file.z
    /\ DOMAIN bed.outputs[1].values = 0..(dims.nPoints - 1)
    /\ bed.outputs[1].active = [e \in 0..(dims.nVolumes - 1) |-> TRUE]

C9_Witness ==
  /\ Succeeded
  /\ Len(mesh.datasets) = 3
  /\ dims.nTimesteps = 2
  /\ dims.nVolumes >= 1
  /\ dims.nPoints = 2
  /\ file.z[1] = 1
  /\ mesh.datasets[2].outputs[1].values[1] = 10

\* C10: close is only ever called on the handle a successful open produced;
\* a failed open returns without a close.
C10_CloseOnlyOpened ==
  \A i \in CallIdx :
     ncCalls[i].op = "close" =>
        /\ ncCalls[1].op = "open"
        /\ ncCalls[1].ok
        /\ ncCalls[i].ncid = ncCalls[1].ncid

=============================================================================
